---- MODULE Spec2Model ----
(***************************************************************************)
(* Model of the external-risk detection service (apps/out_risk_api):       *)
(* the per-vendor pipeline load_docs -> rag -> analyze -> score ->         *)
(* response, the Document Collector, the shared semantic index, the batch  *)
(* orchestration around the pipeline and the HTTP operation that wraps it. *)
(*                                                                         *)
(* Strings are sequences over the model's alphabet: one element stands for *)
(* one character (a keyword syllable group, a Latin word, a blank), and    *)
(* lengths and offsets count elements.  Korean is written in Latin         *)
(* transcription.  URLs are atomic.  Scores are kept in hundredths (weight   *)
(* 1.5 is 150, total 9.99 is 999), so sums are exact.                      *)
(***************************************************************************)
EXTENDS Integers, Sequences, FiniteSets, TLC

(***************************************************************************)
(* Bounds of the model.                                                    *)
(***************************************************************************)
MaxVendors == 3
MaxArticles == 2
MaxTotal == 1200
MaxDocs == 11
MaxNameLen == 4
MaxTextLen == 3
MaxDotted == 62
MaxAge == 200
MaxFixedFeeds == 3
MaxEntries == 2

(***************************************************************************)
(* Strings.                                                                *)
(***************************************************************************)
SP == "sp"
NL == "nl"

\* str.lower() on one token: the Latin tokens with capitals that occur
LowerTok(c) ==
    CASE c = "Hyundai" -> "hyundai"
      [] c = "HYUNDAI" -> "hyundai"
      [] c = "Steel"   -> "steel"
      [] c = "STEEL"   -> "steel"
      [] c = "HSC"     -> "hsc"
      [] c = "SUNGKWANG" -> "sungkwang"
      [] c = "SungKwang" -> "sungkwang"
      [] c = "BEND"    -> "bend"
      [] c = "Bend"    -> "bend"
      [] c = "POSCO"   -> "posco"
      [] c = "Holdings" -> "holdings"
      [] c = "Dongkuk" -> "dongkuk"
      [] c = "DKC"     -> "dkc"
      [] c = "HD"      -> "hd"
      [] c = "Electric" -> "electric"
      [] c = "Daily"   -> "daily"
      [] OTHER -> c

\* U+0130, the capital I with a dot: its lower case is two characters
DottedI == "I_dot"

\* str.lower() on one character
LowerChar(c) == IF c = DottedI THEN <<"i", "dot_above">> ELSE <<LowerTok(c)>>

\* str.lower()
RECURSIVE Lower(_)
Lower(s) == IF s = <<>> THEN <<>> ELSE LowerChar(Head(s)) \o Lower(Tail(s))

IsSpace(c) == c \in {SP, NL}

RECURSIVE LStrip(_)
LStrip(s) == IF s # <<>> /\ IsSpace(Head(s)) THEN LStrip(Tail(s)) ELSE s

RECURSIVE RStrip(_)
RStrip(s) ==
    IF s # <<>> /\ IsSpace(s[Len(s)]) THEN RStrip(SubSeq(s, 1, Len(s) - 1)) ELSE s

\* str.strip()
Strip(s) == RStrip(LStrip(s))

\* re.sub(r"\s+", " ", t): every run of blanks becomes one blank
RECURSIVE CollapseWs(_)
CollapseWs(s) ==
    IF s = <<>> THEN <<>>
    ELSE IF IsSpace(Head(s))
         THEN <<SP>> \o CollapseWs(LStrip(s))
         ELSE <<Head(s)>> \o CollapseWs(Tail(s))

\* s[:n]
Take(s, n) == SubSeq(s, 1, IF n < Len(s) THEN (IF n < 0 THEN 0 ELSE n) ELSE Len(s))

\* k in t (substring)
Contains(t, k) ==
    \E i \in 0..(Len(t) - Len(k)) : SubSeq(t, i + 1, i + Len(k)) = k

Range(s) == {s[i] : i \in 1..Len(s)}

RECURSIVE SumSeq(_)
SumSeq(s) == IF s = <<>> THEN 0 ELSE Head(s) + SumSeq(Tail(s))

(***************************************************************************)
(* Term Expander (search/aliases.py).                                      *)
(***************************************************************************)
\* vendor names
PoscoHoldings == <<"posukeo", "holdingseu">>
HyundaiSteel == <<"hyeondae", "jecheol">>
SungkwangBend == <<"seonggwang", "bendeu">>
DongkukSteel == <<"dongguk", "jegang">>
HDHyundaiElectric == <<"HD", "hyeondae", "illekteurik">>
VendorA == <<"hyeopnyeoksa", "A">>

esg_COMPANY_ALIASES(name) ==
    CASE name = PoscoHoldings ->
           << <<"POSCO", SP, "Holdings">>, <<"POSCO", "holdingseu">>,
              <<"posukeo", SP, "holdingseu">>, <<"POSCO">> >>
      [] name = HyundaiSteel ->
           << <<"Hyundai", SP, "Steel">>, <<"hyeondae", SP, "jecheol">>,
              <<"HSC">>, <<"HYUNDAI", SP, "STEEL">> >>
      [] name = SungkwangBend ->
           << <<"SUNGKWANG", SP, "BEND">>, <<"SungKwang", SP, "Bend">>,
              <<"seonggwang", SP, "bendeu">> >>
      [] name = DongkukSteel ->
           << <<"Dongkuk", SP, "Steel">>, <<"dongguk", SP, "jegang">>, <<"DKC">> >>
      [] name = HDHyundaiElectric ->
           << <<"HD", SP, "Hyundai", SP, "Electric">>, <<"hyeondae", "illekteurik">>,
              <<"HD", "hyeondae", SP, "illekteurik">> >>
      [] OTHER -> <<>>

\* first-seen order, no entry twice
RECURSIVE Uniq(_, _)
Uniq(terms, seen) ==
    IF terms = <<>> THEN <<>>
    ELSE IF Head(terms) \in seen THEN Uniq(Tail(terms), seen)
         ELSE <<Head(terms)>> \o Uniq(Tail(terms), seen \cup {Head(terms)})

\* an expander that looks the name up as it was passed, blanks included
ExpandRawLookup(company_name) ==
    LET base == Strip(company_name)
        NonEmpty(a) == Strip(a) # <<>>
        al == SelectSeq(esg_COMPANY_ALIASES(company_name), NonEmpty)
        terms == <<base>> \o [i \in 1..Len(al) |-> Strip(al[i])]
    IN  IF base = <<>> THEN <<>> ELSE Uniq(terms, {})

esg_expand_company_terms(company_name) ==
    LET base == Strip(company_name)
        NonEmpty(a) == Strip(a) # <<>>
        al == SelectSeq(esg_COMPANY_ALIASES(base), NonEmpty)
        terms == <<base>> \o [i \in 1..Len(al) |-> Strip(al[i])]
    IN  IF base = <<>> THEN <<>> ELSE Uniq(terms, {})

(***************************************************************************)
(* Risk Classifier (analyze/classifier.py).                                *)
(***************************************************************************)
AllCategories ==
    <<"SAFETY_ACCIDENT", "LEGAL_SANCTION", "LABOR_DISPUTE", "ENV_COMPLAINT",
      "FINANCE_LITIGATION">>

KEYWORDS(cat) ==
    CASE cat = "SAFETY_ACCIDENT" ->
           << <<"sago">>, <<"sanjae">>, <<"churak">>, <<"kkiim">>, <<"samang">>,
              <<"busang">>, <<"anjeon">>, <<"jungdaejaehae">> >>
      [] cat = "LEGAL_SANCTION" ->
           << <<"gwajinggeum">>, <<"haengjeong", "cheobun">>, <<"wiban">>,
              <<"cheobun">>, <<"geomchal">>, <<"giso">>, <<"beolgeum">>, <<"jejae">> >>
      [] cat = "LABOR_DISPUTE" ->
           << <<"paeop">>, <<"nojo">>, <<"jaengui">>, <<"imgeumchebul">>,
              <<"budanghaego">>, <<"nosa">>, <<"gyoseop">> >>
      [] cat = "ENV_COMPLAINT" ->
           << <<"oyeom">>, <<"baechul">>, <<"akchwi">>, <<"minwon">>, <<"nuchul">>,
              <<"hwangyeong">>, <<"pyesu">>, <<"meonji">> >>
      [] cat = "FINANCE_LITIGATION" ->
           << <<"budo">>, <<"hoesaeng">>, <<"pasan">>, <<"sosong">>, <<"chaemu">>,
              <<"yeonche">>, <<"jeokja">>, <<"yudongseong">> >>
      [] OTHER -> <<>>

esg_normalize_text(text) == Strip(CollapseWs(Lower(text)))

\* [k for k in kws if k in t]
MatchedKeywords(cat, t) ==
    LET InText(k) == Contains(t, k) IN SelectSeq(KEYWORDS(cat), InText)

\* a loop in which a category with as many hits replaces the best so far
RECURSIVE GuessLoopLastWins(_, _, _)
GuessLoopLastWins(cats, t, best) ==
    IF cats = <<>> THEN best
    ELSE LET cat == Head(cats)
             m == MatchedKeywords(cat, t)
             hit == Len(m)
         IN  GuessLoopLastWins(Tail(cats), t,
                       IF hit >= best.hit /\ hit > 0
                       THEN [cat |-> cat, hit |-> hit, tags |-> Take(m, 5)]
                       ELSE best)

\* a loop that keeps every matched keyword as a tag
RECURSIVE GuessLoopAllTags(_, _, _)
GuessLoopAllTags(cats, t, best) ==
    IF cats = <<>> THEN best
    ELSE LET cat == Head(cats)
             m == MatchedKeywords(cat, t)
             hit == Len(m)
         IN  GuessLoopAllTags(Tail(cats), t,
                       IF hit > best.hit
                       THEN [cat |-> cat, hit |-> hit, tags |-> m]
                       ELSE best)

\* the loop over the allowed categories: best is [cat, hit, tags]
RECURSIVE GuessLoop(_, _, _)
GuessLoop(cats, t, best) ==
    IF cats = <<>> THEN best
    ELSE LET cat == Head(cats)
             m == MatchedKeywords(cat, t)
             hit == Len(m)
         IN  GuessLoop(Tail(cats), t,
                       IF hit > best.hit
                       THEN [cat |-> cat, hit |-> hit, tags |-> Take(m, 5)]
                       ELSE best)

Min(a, b) == IF a < b THEN a ELSE b
Max(a, b) == IF a > b THEN a ELSE b

\* a classifier that hands out the hit count uncapped
GuessUncapped(text, allowed0) ==
    LET allowed == IF allowed0 = <<>> THEN AllCategories ELSE allowed0
        t == esg_normalize_text(text)
        best == GuessLoop(allowed, t, [cat |-> allowed[1], hit |-> 0, tags |-> <<>>])
    IN  [category |-> best.cat, severity |-> best.hit, tags |-> best.tags]

esg_guess_category(text, allowed0) ==
    LET allowed == IF allowed0 = <<>> THEN AllCategories ELSE allowed0
        t == esg_normalize_text(text)
        best == GuessLoop(allowed, t, [cat |-> allowed[1], hit |-> 0, tags |-> <<>>])
    IN  [category |-> best.cat, severity |-> Min(5, best.hit), tags |-> best.tags]

(***************************************************************************)
(* Recency Weighter and level mapping (scoring/rules.py).                  *)
(* A published-date string is [kind, age]: its written form and, when the  *)
(* form denotes a date, that date's age in whole days at the time of the   *)
(* run.                                                                    *)
(***************************************************************************)
DateKinds == {"empty", "ymd", "iso_offset", "iso_z", "compact_z", "garbage"}
NoDateStr == [kind |-> "empty", age |-> 0]
Ymd(age) == [kind |-> "ymd", age |-> age]

\* "T" in value and value.endswith("Z")
HasTAndEndsZ(s) == s.kind \in {"iso_z", "compact_z"}

NotParsed == [ok |-> FALSE, days |-> 0]
Parsed(d) == [ok |-> TRUE, days |-> d]

\* datetime.strptime(value, "%Y-%m-%d")
StrptimeYmd(s) == IF s.kind = "ymd" THEN Parsed(s.age) ELSE NotParsed

esg_parse_date_ymd(s) ==
    IF s.kind = "empty" THEN NotParsed
    ELSE IF HasTAndEndsZ(s)
         THEN \* strptime(value, "%Y%m%dT%H%M%SZ"); any failure falls to "%Y-%m-%d"
              IF s.kind = "compact_z" THEN Parsed(s.age) ELSE StrptimeYmd(s)
         ELSE \* datetime.fromisoformat(value.replace("Z", "+00:00"))
              IF s.kind \in {"ymd", "iso_offset"} THEN Parsed(s.age) ELSE StrptimeYmd(s)

\* a weighting that gives the day boundaries to the lower weight
WeightBoundaryLower(published_at) ==
    LET dt == esg_parse_date_ymd(published_at)
    IN  IF ~dt.ok THEN 70
        ELSE IF dt.days < 30 THEN 150
        ELSE IF dt.days < 90 THEN 100
        ELSE IF dt.days < 180 THEN 70
        ELSE 40

\* the weight in hundredths
esg_recency_weight(published_at) ==
    LET dt == esg_parse_date_ymd(published_at)
    IN  IF ~dt.ok THEN 70
        ELSE IF dt.days <= 30 THEN 150
        ELSE IF dt.days <= 90 THEN 100
        ELSE IF dt.days <= 180 THEN 70
        ELSE 40

\* a mapping that gives the boundaries to the lower level
LevelBoundaryLower(total_score) ==
    IF total_score > 1000 THEN "HIGH"
    ELSE IF total_score > 500 THEN "MEDIUM"
    ELSE "LOW"

\* total in hundredths: 10 is 1000, 5 is 500
esg_level_from_total(total_score) ==
    IF total_score >= 1000 THEN "HIGH"
    ELSE IF total_score >= 500 THEN "MEDIUM"
    ELSE "LOW"


(***************************************************************************)
(* Evidence Extractor (analyze/classifier.py).                             *)
(***************************************************************************)
\* str.find: the least 0-based position of k in t, or -1
Find(t, k) ==
    LET pos == {i \in 0..(Len(t) - Len(k)) : SubSeq(t, i + 1, i + Len(k)) = k}
    IN  IF pos = {} THEN -1 ELSE CHOOSE i \in pos : \A j \in pos : i <= j

\* the tags found in the text, in tag order
FoundTags(lower, tags) ==
    LET Found(tag) == Find(lower, Lower(tag)) >= 0 IN SelectSeq(tags, Found)

esg_pick_quote_and_offset(full_text, tags, max_len) ==
    LET text == full_text
        lower == Lower(text)
        found == FoundTags(lower, tags)
    IN  IF text = <<>> THEN [quote |-> <<>>, start |-> 0, end |-> 0]
        ELSE IF found # <<>>
        THEN LET idx == Find(lower, Lower(found[1]))
                 start == Max(0, idx - 60)
                 end == Min(Len(text), start + max_len)
             IN  [quote |-> SubSeq(text, start + 1, end), start |-> start, end |-> end]
        ELSE LET end2 == Min(Len(text), max_len)
             IN  [quote |-> SubSeq(text, 1, end2), start |-> 0, end |-> end2]

(***************************************************************************)
(* Summarizer (analyze/summarizer.py).  A summary is a sequence of         *)
(* characters; EstMarker is the "estimated" word and EstPrefix what the    *)
(* summarizer puts in front of an estimated summary.  llm is the outcome   *)
(* of the generative-text call: LlmOff (not configured), LlmRaise, or a    *)
(* reply with est, the is_estimated field it carries ("true", "false",     *)
(* "none"), and marked, whether its summary already starts with the        *)
(* marker.                                                                 *)
(***************************************************************************)
LlmOff == [kind |-> "off", est |-> "none", marked |-> FALSE]
LlmRaise == [kind |-> "raise", est |-> "none", marked |-> FALSE]
LlmReplies == [kind : {"reply"}, est : {"true", "false", "none"}, marked : BOOLEAN]

EstMarker == <<"chujeong">>
EstPrefix == <<"chujeong", ":", SP>>

StartsWith(s, p) == Len(s) >= Len(p) /\ SubSeq(s, 1, Len(p)) = p

\* str.replace("\n", " ")
ReplaceNl(s) == [i \in 1..Len(s) |-> IF s[i] = NL THEN SP ELSE s[i]]

esg_is_evidence_weak(text) == Len(Strip(text)) < 40

esg_prefix_if_needed(strict, is_estimated, text) ==
    IF strict /\ is_estimated /\ ~StartsWith(text, EstMarker)
    THEN EstPrefix \o text
    ELSE text

\* a deterministic path on which weak evidence alone makes the result estimated
SummarizeWeakIsEstimated(text, category, severity, strict_grounding, llm) ==
    LET base == Strip(text)
        snippet == ReplaceNl(Take(base, 180))
        is_estimated == esg_is_evidence_weak(base)
    IN  [summary_ko |-> esg_prefix_if_needed(strict_grounding, is_estimated,
                           <<category, SP, "signal", SP>> \o snippet),
         why |-> snippet, is_estimated |-> is_estimated]

esg_summarize_and_why(text, category, severity, strict_grounding, llm) ==
    LET base == Strip(text)
        weak == esg_is_evidence_weak(base)
        snippet == ReplaceNl(Take(base, 180))
    IN  IF base = <<>>
        THEN [summary_ko |-> EstPrefix \o <<"insufficient">>,
              why |-> <<"insufficient">>, is_estimated |-> TRUE]
        ELSE IF llm.kind = "reply"
        THEN LET is_estimated == IF llm.est = "none" THEN weak ELSE llm.est = "true"
                 summary == IF llm.marked THEN EstMarker \o <<SP, "llm">> ELSE <<"llm">>
             IN  [summary_ko |-> esg_prefix_if_needed(strict_grounding, is_estimated, summary),
                  why |-> <<"llm">>, is_estimated |-> is_estimated]
        ELSE LET is_estimated == IF strict_grounding THEN weak ELSE FALSE
             IN  [summary_ko |-> esg_prefix_if_needed(strict_grounding, is_estimated,
                                    <<category, SP, "signal", SP>> \o snippet),
                  why |-> snippet, is_estimated |-> is_estimated]

(***************************************************************************)
(* Documents and signals (schemas/risk.py, pipeline/detect.py).            *)
(***************************************************************************)
DocItem(doc_id, title, source, published_at, url, text, snippet) ==
    [doc_id |-> doc_id, title |-> title, source |-> source,
     published_at |-> published_at, url |-> url, text |-> text, snippet |-> snippet]

\* (d.text or "").strip() or (d.snippet or "").strip()
DocText(d) == IF Strip(d.text) # <<>> THEN Strip(d.text) ELSE Strip(d.snippet)

DocMeta(d) ==
    [doc_id |-> d.doc_id, title |-> d.title, source |-> d.source, url |-> d.url,
     published_at |-> d.published_at]

esg_docs_to_text_items(docs) ==
    LET HasText(d) == DocText(d) # <<>>
        kept == SelectSeq(docs, HasText)
    IN  [i \in 1..Len(kept) |-> [text |-> DocText(kept[i]), metadata |-> DocMeta(kept[i])]]

esg_build_signal_from_text(req, text, meta, llm) ==
    LET cls == esg_guess_category(text, req.categories)
        summary_res == esg_summarize_and_why(text, cls.category, cls.severity,
                                             req.options.strict_grounding, llm)
        weight == esg_recency_weight(meta.published_at)
        score == cls.severity * weight
        q == esg_pick_quote_and_offset(text, cls.tags, 200)
        evidence ==
            IF req.options.return_evidence_text /\ q.quote # <<>>
            THEN << [doc_id |-> meta.doc_id, source |-> meta.source, url |-> meta.url,
                     quote |-> q.quote, offset |-> [start |-> q.start, end |-> q.end]] >>
            ELSE <<>>
    IN  [category |-> cls.category, severity |-> cls.severity, score |-> score,
         title |-> meta.title, summary_ko |-> summary_res.summary_ko,
         why |-> summary_res.why, published_at |-> meta.published_at,
         evidence |-> evidence, tags |-> cls.tags,
         is_estimated |-> summary_res.is_estimated]

esg_recommendations_from_signals(signals) ==
    LET Severe(cat) ==
            \E i \in 1..Len(signals) :
                signals[i].category = cat /\ signals[i].severity >= 3
        rec == (IF Severe("SAFETY_ACCIDENT") THEN <<"rec_safety">> ELSE <<>>)
               \o (IF Severe("LEGAL_SANCTION") THEN <<"rec_legal">> ELSE <<>>)
               \o (IF Severe("FINANCE_LITIGATION") THEN <<"rec_finance">> ELSE <<>>)
               \o (IF \E i \in 1..Len(signals) : signals[i].is_estimated
                   THEN <<"rec_estimated">> ELSE <<>>)
    IN  IF signals = <<>> THEN <<"rec_no_external_signal">>
        ELSE IF rec # <<>> THEN rec ELSE <<"rec_check_source">>


(***************************************************************************)
(* Primary search provider and Document Collector (search/provider.py).    *)
(* An article of the provider's reply is [url, title, seendate, snippet];  *)
(* seendate is [kind, age] with kind "digits14" (YYYYMMDDhhmmss),          *)
(* "compact_z" (YYYYMMDDThhmmssZ), "empty".  A reply is [kind, articles]   *)
(* with kind "ok", "timeout", "http_error" or "bad_json".                  *)
(***************************************************************************)
Article(url, title, seendate, snippet) ==
    [url |-> url, title |-> title, seendate |-> seendate, snippet |-> snippet]

SeenDate(kind, age) == [kind |-> kind, age |-> age]

\* sha256(url)[:16]: one id per url
esg_hash_id(value) == <<"sha256", value>>

esg_domain_from_url(url) ==
    CASE url = "https://www.news.kr/hs1" -> <<"news.kr">>
      [] url = "https://www.hyundai-steel.com/pr" -> <<"hyundai", "-", "steel", ".com">>
      [] url = "https://daily.kr/labor" -> <<"daily.kr">>
      [] url = "https://www.biz.kr/sk1" -> <<"biz.kr">>
      [] url = "https://env.kr/a1" -> <<"env.kr">>
      [] url = "https://old.kr/0" -> <<"old.kr">>
      [] OTHER -> <<"unknown">>

esg_gdelt_date_to_ymd(seendate) ==
    IF seendate.kind = "digits14" THEN Ymd(seendate.age) ELSE NoDateStr

\* x or default, for an int
OrInt(v, default) == IF v = 0 THEN default ELSE v

\* a loop over the articles that does not look at the urls already seen
RECURSIVE GdeltKeepsDuplicates(_, _, _)
GdeltKeepsDuplicates(articles, seen, start_ymd) ==
    IF articles = <<>> THEN <<>>
    ELSE LET a == Head(articles)
             title == IF Strip(a.title) # <<>> THEN Strip(a.title) ELSE <<"untitled">>
             ymd == esg_gdelt_date_to_ymd(a.seendate)
             snippet == Strip(a.snippet)
         IN  IF a.url = ""
             THEN GdeltKeepsDuplicates(Tail(articles), seen, start_ymd)
             ELSE << DocItem(esg_hash_id(a.url), title, esg_domain_from_url(a.url),
                             IF ymd # NoDateStr THEN ymd ELSE start_ymd,
                             a.url, <<>>,
                             IF snippet # <<>> THEN snippet ELSE title) >>
                  \o GdeltKeepsDuplicates(Tail(articles), seen, start_ymd)

\* the loop over the articles of esg_search_gdelt
RECURSIVE GdeltItems(_, _, _)
GdeltItems(articles, seen, start_ymd) ==
    IF articles = <<>> THEN <<>>
    ELSE LET a == Head(articles)
             title == IF Strip(a.title) # <<>> THEN Strip(a.title) ELSE <<"untitled">>
             ymd == esg_gdelt_date_to_ymd(a.seendate)
             snippet == Strip(a.snippet)
         IN  IF a.url = "" \/ a.url \in seen
             THEN GdeltItems(Tail(articles), seen, start_ymd)
             ELSE << DocItem(esg_hash_id(a.url), title, esg_domain_from_url(a.url),
                             IF ymd # NoDateStr THEN ymd ELSE start_ymd,
                             a.url, <<>>,
                             IF snippet # <<>> THEN snippet ELSE title) >>
                  \o GdeltItems(Tail(articles), seen \cup {a.url}, start_ymd)

\* [raised, items]: raise_for_status / r.json() raise on a failed reply
esg_search_gdelt(req, reply) ==
    IF reply.kind # "ok" THEN [raised |-> TRUE, items |-> <<>>]
    ELSE [raised |-> FALSE,
          items |-> GdeltItems(reply.articles, {},
                               Ymd(OrInt(req.time_window_days, 90)))]

\* esg_search_documents without the check of the sources
SearchIgnoresSources(req) == req.search.enabled

\* whether esg_search_documents goes on to the provider
SearchGoesToProvider(req) ==
    /\ req.search.enabled
    /\ ~(req.search.sources # {} /\ "news" \notin req.search.sources)

\* [docs, called, secondary]: the documents, whether the primary provider was
\* called, and whether the secondary one (esg_search_rss) was: no path of the
\* function calls it
esg_search_documents(req, reply) ==
    IF ~SearchGoesToProvider(req)
    THEN [docs |-> <<>>, called |-> FALSE, secondary |-> FALSE]
    ELSE LET r == esg_search_gdelt(req, reply)
         IN  [docs |-> IF r.raised THEN <<>> ELSE r.items, called |-> TRUE,
              secondary |-> FALSE]

(***************************************************************************)
(* Secondary, feed-based provider (search/rss.py).  A feed is [kind, term]:*)
(* one of the fixed general feeds, or the search feed built for a term.    *)
(* The list of fixed feeds (app.search.rss_sources.RSS_FEEDS) is a         *)
(* parameter: n_fixed of them.  replies[k] is what the k-th request of the *)
(* run gets: a failure (timeout, status, XML that does not parse) or the   *)
(* entries of the feed, each with link, title and pubDate.                 *)
(***************************************************************************)
FixedFeed(k) == [kind |-> "fixed", term |-> <<k>>]
SearchFeed(t) == [kind |-> "search", term |-> t]

RSS_FEEDS(n_fixed) == [k \in 1..n_fixed |-> FixedFeed(k)]

\* pubDate: RFC 2822 or ISO text gives the date, anything else ""
esg_safe_ymd(pub) == IF pub.kind \in {"rfc2822", "iso"} THEN Ymd(pub.age) ELSE NoDateStr

esg_build_rss_search_feeds(req) ==
    LET base_q == IF Strip(req.search.query) # <<>> THEN Strip(req.search.query)
                  ELSE Strip(req.company.name)
        expanded == esg_expand_company_terms(base_q)
        terms == Take(IF expanded # <<>> THEN expanded ELSE <<base_q>>, 2)
    IN  IF base_q = <<>> THEN <<>>
        ELSE [i \in 1..Len(terms) |-> SearchFeed(terms[i])]

\* the loop over the entries of one feed: acc is [items, seen]
RECURSIVE RssEntries(_, _, _)
RssEntries(entries, acc, max_total) ==
    IF entries = <<>> \/ Len(acc.items) >= max_total THEN acc
    ELSE LET it == Head(entries)
             link == it.link
             title == Strip(it.title)
         IN  IF link = "" \/ link \in acc.seen
             THEN RssEntries(Tail(entries), acc, max_total)
             ELSE RssEntries(Tail(entries),
                      [items |-> Append(acc.items,
                                    DocItem(esg_hash_id(link),
                                            IF title # <<>> THEN title ELSE <<"untitled">>,
                                            esg_domain_from_url(link),
                                            esg_safe_ymd(it.pubDate), link, <<>>, title)),
                       seen |-> acc.seen \cup {link}],
                      max_total)

\* a loop over the feeds that goes on after max_total documents
RECURSIVE RssFeedsNoEarlyExit(_, _, _, _, _)
RssFeedsNoEarlyExit(feeds, replies, acc, max_total, fetched) ==
    IF feeds = <<>> THEN [items |-> acc.items, fetched |-> fetched]
    ELSE LET reply == Head(replies)
             after == IF reply.kind = "ok"
                      THEN RssEntries(reply.entries, acc, max_total)
                      ELSE acc
         IN  RssFeedsNoEarlyExit(Tail(feeds), Tail(replies), after, max_total,
                                 Append(fetched, Head(feeds)))

\* the loop over feeds[:max_feeds]: fetched is the list of feeds requested
RECURSIVE RssFeeds(_, _, _, _, _)
RssFeeds(feeds, replies, acc, max_total, fetched) ==
    IF feeds = <<>> \/ Len(acc.items) >= max_total
    THEN [items |-> acc.items, fetched |-> fetched]
    ELSE LET reply == Head(replies)
             after == IF reply.kind = "ok"
                      THEN RssEntries(reply.entries, acc, max_total)
                      ELSE acc
         IN  RssFeeds(Tail(feeds), Tail(replies), after, max_total,
                      Append(fetched, Head(feeds)))

\* [items, fetched]: the documents, and the feeds requested on the way
esg_search_rss(req, n_fixed, replies) ==
    LET feeds == RSS_FEEDS(n_fixed) \o esg_build_rss_search_feeds(req)
        max_total == OrInt(req.search.max_results, 20)
        max_feeds == Min(3, Len(feeds))
    IN  RssFeeds(Take(feeds, max_feeds), replies, [items |-> <<>>, seen |-> {}],
                 max_total, <<>>)

(***************************************************************************)
(* Semantic index (rag/chroma.py): one collection for every caller.        *)
(***************************************************************************)
\* app.rag.chunking: pieces of at most chunk_size, each with the item's metadata
RECURSIVE ChunkText(_, _)
ChunkText(text, size) ==
    IF Len(text) <= size THEN <<text>>
    ELSE <<SubSeq(text, 1, size)>> \o ChunkText(SubSeq(text, size + 1, Len(text)), size)

esg_chunk_documents(items, chunk_size) ==
    UNION { { [text |-> c, metadata |-> items[i].metadata] :
                c \in Range(ChunkText(items[i].text, chunk_size)) } :
            i \in 1..Len(items) }

\* an upsert into a collection that starts empty for every run
UpsertIntoOwnCollection(collection, items, chunk_size) ==
    esg_chunk_documents(items, chunk_size)

\* the collection after add_documents
esg_upsert(collection, items, chunk_size) ==
    collection \cup esg_chunk_documents(items, chunk_size)

\* the sequences of n distinct elements of S
RECURSIVE Arrangements(_, _)
Arrangements(S, n) ==
    IF n = 0 \/ S = {} THEN {<<>>}
    ELSE UNION { { <<e>> \o rest : rest \in Arrangements(S \ {e}, n - 1) } : e \in S }

\* similarity_search: the k nearest chunks, in an order the index decides
esg_retrieve(collection, query, top_k) ==
    IF Strip(query) = <<>> THEN {<<>>}
    ELSE Arrangements(collection, Min(Max(1, OrInt(top_k, 6)), Cardinality(collection)))

(***************************************************************************)
(* The per-vendor pipeline (pipeline/detect.py) over esg_State.            *)
(***************************************************************************)
InitState ==
    [docs |-> <<>>, search_used |-> FALSE, rag_used |-> FALSE, rag_hits |-> <<>>,
     signals |-> <<>>, total_score |-> 0, level |-> "LOW"]

\* a loading step that searches whenever search is enabled and adds what it
\* finds to the supplied documents
LoadDocsSearchesAnyway(req, state, reply) ==
    IF req.search.enabled
    THEN [state EXCEPT !.docs = req.documents \o esg_search_documents(req, reply).docs,
                       !.search_used = TRUE]
    ELSE [state EXCEPT !.docs = req.documents, !.search_used = FALSE]

esg_node_load_docs(req, state, reply) ==
    IF req.search.enabled /\ req.documents = <<>>
    THEN [state EXCEPT !.docs = esg_search_documents(req, reply).docs,
                       !.search_used = TRUE]
    ELSE [state EXCEPT !.docs = req.documents, !.search_used = FALSE]

\* esg_node_rag going to the index without asking esg_ready()
RagIgnoresReady(req, state, ready) ==
    req.rag.enabled /\ esg_docs_to_text_items(state.docs) # <<>>

\* esg_node_rag querying the index although there is nothing to index
RagQueriesWithoutDocs(req, state, ready) == req.rag.enabled /\ ready

\* esg_node_rag reaches the index: enabled, something to index, index ready
RagUsesIndex(req, state, ready) ==
    req.rag.enabled /\ esg_docs_to_text_items(state.docs) # <<>> /\ ready

\* esg_node_rag that marks retrieval as used only when the index answered
RagLocalUnused(req, state) ==
    LET text_items == esg_docs_to_text_items(state.docs)
    IN  IF ~req.rag.enabled \/ text_items = <<>>
        THEN [state EXCEPT !.rag_used = FALSE, !.rag_hits = <<>>]
        ELSE [state EXCEPT !.rag_used = FALSE,
                           !.rag_hits = Take(text_items, Max(1, OrInt(req.rag.top_k, 6)))]

\* esg_node_rag that falls back to all the text items
RagLocalAllItems(req, state) ==
    LET text_items == esg_docs_to_text_items(state.docs)
    IN  IF ~req.rag.enabled
        THEN [state EXCEPT !.rag_used = FALSE, !.rag_hits = <<>>]
        ELSE [state EXCEPT !.rag_used = TRUE, !.rag_hits = text_items]

\* esg_node_rag on the paths that end without the index
esg_node_rag_local(req, state) ==
    LET text_items == esg_docs_to_text_items(state.docs)
    IN  IF ~req.rag.enabled
        THEN [state EXCEPT !.rag_used = FALSE, !.rag_hits = <<>>]
        ELSE IF text_items = <<>>
        THEN [state EXCEPT !.rag_used = TRUE, !.rag_hits = <<>>]
        ELSE [state EXCEPT !.rag_used = TRUE,
                           !.rag_hits = Take(text_items, Max(1, OrInt(req.rag.top_k, 6)))]

RagQuery(req) ==
    IF Strip(req.search.query) # <<>> THEN Strip(req.search.query) ELSE req.company.name

\* an analysis that goes through the hits and then through the documents
AnalyzesHitsAndDocs(state) ==
    LET src == [i \in 1..Len(state.rag_hits) |->
                   [text |-> Strip(state.rag_hits[i].text),
                    metadata |-> state.rag_hits[i].metadata]]
               \o [i \in 1..Len(state.docs) |->
                      [text |-> DocText(state.docs[i]),
                       metadata |-> DocMeta(state.docs[i])]]
        HasText(it) == it.text # <<>>
    IN  SelectSeq(src, HasText)

\* the text items esg_node_analyze builds signals from
AnalyzedItems(state) ==
    LET src == IF state.rag_hits # <<>>
               THEN [i \in 1..Len(state.rag_hits) |->
                        [text |-> Strip(state.rag_hits[i].text),
                         metadata |-> state.rag_hits[i].metadata]]
               ELSE [i \in 1..Len(state.docs) |->
                        [text |-> DocText(state.docs[i]),
                         metadata |-> DocMeta(state.docs[i])]]
        HasText(it) == it.text # <<>>
    IN  SelectSeq(src, HasText)

\* an analysis that passes over the items in which no keyword was found
AnalyzeSkipsNoHit(req, state, llms) ==
    LET items == AnalyzedItems(state)
        all == [i \in 1..Len(items) |->
                   esg_build_signal_from_text(req, items[i].text, items[i].metadata, llms[i])]
    IN  [state EXCEPT !.signals = SelectSeq(all, LAMBDA sig : sig.severity > 0)]

\* llms[i] is the outcome of the generative-text call for the i-th item
esg_node_analyze(req, state, llms) ==
    LET items == AnalyzedItems(state)
    IN  [state EXCEPT !.signals =
            [i \in 1..Len(items) |->
                esg_build_signal_from_text(req, items[i].text, items[i].metadata, llms[i])]]

\* esg_node_score adding up the severities instead of the scores
ScoreBySeverity(state) ==
    LET total == SumSeq([i \in 1..Len(state.signals) |-> state.signals[i].severity * 100])
    IN  [state EXCEPT !.total_score = total, !.level = esg_level_from_total(total)]

esg_node_score(state) ==
    LET total == SumSeq([i \in 1..Len(state.signals) |-> state.signals[i].score])
    IN  [state EXCEPT !.total_score = total, !.level = esg_level_from_total(total)]

esg_build_response(req, state) ==
    [external_risk_level |-> state.level,
     total_score |-> state.total_score,
     signals |-> state.signals,
     recommendations |-> esg_recommendations_from_signals(state.signals),
     no_docs_note |-> (state.docs = <<>>),
     retrieval_meta |->
        [search_used |-> (req.search.enabled /\ state.search_used),
         rag_used |-> (req.rag.enabled /\ state.rag_used),
         docs_count |-> Len(state.docs),
         top_sources |-> {state.docs[i].source : i \in 1..Len(state.docs)} \ {<<>>}]]


(***************************************************************************)
(* The world outside: what the search provider can reply for a vendor,     *)
(* what the index holds from earlier runs, which capabilities are          *)
(* configured.                                                             *)
(***************************************************************************)
VendorName(i) ==
    CASE i = 1 -> HyundaiSteel
      [] i = 2 -> SungkwangBend
      [] i = 3 -> VendorA
      [] i = 4 -> DongkukSteel
      [] OTHER -> PoscoHoldings

\* the articles the provider holds that a search for the vendor can bring up
ArticlePool(name) ==
    CASE name = HyundaiSteel ->
           { Article("https://www.news.kr/hs1",
                     <<"Hyundai", SP, "Steel", SP, "sago">>, SeenDate("digits14", 10),
                     <<"hyeondae", "jecheol", SP, "sago", SP, "samang">>),
             Article("https://daily.kr/labor",
                     <<SP, "paeop", SP, "nosa", NL>>, SeenDate("compact_z", 10), <<>>),
             Article("", <<"hyeondae", "jecheol">>, SeenDate("empty", 0), <<"budo">>) }
      [] name = SungkwangBend ->
           { Article("https://www.biz.kr/sk1",
                     <<"SungKwang", SP, "Bend">>, SeenDate("digits14", 100),
                     <<"seonggwang", "bendeu", SP, "gwajinggeum", SP, "haengjeong",
                       "cheobun", SP, "wiban">>) }
      [] name = VendorA ->
           { Article("https://env.kr/a1", <<>>, SeenDate("empty", 0),
                     <<"hyeopnyeoksa", "A", SP, "oyeom", SP, "pyesu", SP, "akchwi",
                       SP, "minwon", SP, "nuchul", SP, "meonji">>) }
      [] OTHER ->
           { Article("https://other.kr/1", name, SeenDate("digits14", 200),
                     name \o <<SP, "sosong">>) }

SeqsUpTo(S, n) == UNION { [1..k -> S] : k \in 0..n }

\* the replies explored: every failure and every list of up to MaxArticles
\* articles for a single vendor; in a batch of several vendors a timeout, and
\* the lists of up to one article with a url
ProviderReplies(name, wide) ==
    IF wide
    THEN { [kind |-> k, articles |-> <<>>] : k \in {"timeout", "http_error", "bad_json"} }
         \cup { [kind |-> "ok", articles |-> a] :
                    a \in SeqsUpTo(ArticlePool(name), MaxArticles) }
    ELSE { [kind |-> "timeout", articles |-> <<>>] }
         \cup { [kind |-> "ok", articles |-> a] :
                    a \in SeqsUpTo({x \in ArticlePool(name) : x.url # ""}, 1) }

\* a chunk left in the collection by an earlier run
OldChunk ==
    [text |-> <<"pasan", SP, "hoesaeng", SP, "chaemu">>,
     metadata |-> DocMeta(DocItem(esg_hash_id("https://old.kr/0"), <<"old">>,
                                  esg_domain_from_url("https://old.kr/0"), Ymd(200),
                                  "https://old.kr/0", <<>>, <<>>))]

\* rag_ready: esg_ChromaRag.esg_ready(); llm: the generative-text capability is
\* configured.  Both need the API key, the index also needs its own library.
Envs ==
    { [rag_ready |-> FALSE, llm |-> FALSE], [rag_ready |-> FALSE, llm |-> TRUE],
      [rag_ready |-> TRUE, llm |-> TRUE] }

(***************************************************************************)
(* Requests (schemas/risk.py: ExternalRiskDetectRequest).                  *)
(***************************************************************************)
Req(name, cfg) ==
    [company |-> [name |-> name],
     time_window_days |-> cfg.time_window_days,
     categories |-> cfg.categories,
     search |-> [enabled |-> cfg.search_enabled, query |-> <<>>,
                 max_results |-> 20, sources |-> cfg.sources],
     documents |-> cfg.documents,
     rag |-> [enabled |-> cfg.rag_enabled, top_k |-> cfg.top_k, chunk_size |-> 800],
     options |-> [strict_grounding |-> cfg.strict_grounding,
                  return_evidence_text |-> cfg.return_evidence_text]]

\* documents a caller can supply with the request
SuppliedDocs ==
    << DocItem(<<"doc", "1">>, <<"report">>, <<"internal">>, Ymd(60), "file://1",
               <<"churak", SP, "busang", SP, "anjeon", SP, "sanjae", SP, "kkiim", SP,
                 "jungdaejaehae">>, <<>>),
       DocItem(<<"doc", "2">>, <<"memo">>, <<>>, NoDateStr, "file://2",
               <<SP>>, <<"imgeumchebul", SP, "nojo">>) >>

\* the request settings explored for a single vendor
WideConfigs ==
    [search_enabled : BOOLEAN, sources : {{"news"}, {}, {"gov", "court"}},
     documents : {<<>>, SuppliedDocs}, rag_enabled : BOOLEAN, top_k : {1, 2},
     strict_grounding : BOOLEAN, return_evidence_text : {TRUE},
     categories : {AllCategories}, time_window_days : {90}]

\* the shared settings explored for a batch of several vendors
BatchConfigs ==
    [search_enabled : {TRUE}, sources : {{"news"}},
     documents : {<<>>}, rag_enabled : BOOLEAN, top_k : {1},
     strict_grounding : {TRUE}, return_evidence_text : {TRUE},
     categories : {AllCategories}, time_window_days : {90}]

(***************************************************************************)
(* State.                                                                  *)
(***************************************************************************)
VARIABLES
    reqs,       \* the batch request: one ExternalRiskDetectRequest per vendor
    env,        \* which capabilities are configured
    index,      \* the shared collection of the semantic index
    tasks,      \* per vendor: [pc, state, result]
    order,      \* the vendors in the order their tasks ended
    api,        \* the detect operation's reply: [status, results, error]
    coll,       \* a direct call of the Document Collector: [pc, req, docs, called,
                \* secondary, reply]
    call        \* a direct call of one of the components: [pc, op, arg, out]

vars == <<reqs, env, index, tasks, order, api, coll, call>>

NoResult == [kind |-> "none"]
NoColl == [pc |-> "off"]
NoCall == [pc |-> "off"]
ApiPending == [status |-> "pending", results |-> <<>>, error |-> "none"]

Vendors == 1..Len(reqs)

\* a task holds one of the pool's slots from its start to its end
RunningPcs == {"load_docs", "rag", "rag_retrieve", "analyze", "raised"}
EndedPcs == {"done", "timeout", "failed", "cancelled"}
Running == {i \in Vendors : tasks[i].pc \in RunningPcs}


(***************************************************************************)
(* Batch Orchestrator: esg_detect_external_risk_batch.  Each vendor's      *)
(* pipeline runs as a task of its own under a bounded pool and a hard      *)
(* per-vendor deadline; a task that times out or fails yields a degraded   *)
(* result; the results are returned by input position.                     *)
(***************************************************************************)
ConcurrencyLimit == 2

\* a pool that hands out a slot to every task at once
CanStartUnbounded == TRUE

\* a waiting task may start: a slot of the pool is free
CanStart == Cardinality(Running) < ConcurrencyLimit

VendorResult(name, kind, rationale, resp) ==
    [vendor |-> name, kind |-> kind,
     external_risk_level |-> resp.external_risk_level,
     total_score |-> resp.total_score,
     docs_count |-> resp.retrieval_meta.docs_count,
     rationale |-> rationale,
     signals |-> resp.signals,
     retrieval_meta |-> resp.retrieval_meta]

\* the response of a pipeline that found nothing
EmptyResponse(req) == esg_build_response(req, InitState)

\* the result of a task whose pipeline returned resp
CompletedResult(req, resp) ==
    VendorResult(req.company.name, "ok", "signals", resp)

\* a placeholder built from what the abandoned pipeline had reached
TimeoutResultKeepsPartial(req, state) ==
    VendorResult(req.company.name, "timeout", "timeout",
                 [esg_build_response(req, state) EXCEPT !.external_risk_level = "LOW"])

\* the placeholder for a task that hit the per-vendor deadline in `state`
TimeoutResult(req, state) ==
    VendorResult(req.company.name, "timeout", "timeout",
                 [EmptyResponse(req) EXCEPT
                     !.retrieval_meta = [search_used |-> FALSE, rag_used |-> FALSE,
                                         docs_count |-> 0, top_sources |-> {}]])

\* an orchestrator that lets the pipeline's exception through
FailureEscapes(req) == [kind |-> "raised"]

\* what the orchestrator makes of a pipeline that raised
FailureResult(req) ==
    VendorResult(req.company.name, "failed", "failed",
                 [EmptyResponse(req) EXCEPT
                     !.retrieval_meta = [search_used |-> FALSE, rag_used |-> FALSE,
                                         docs_count |-> 0, top_sources |-> {}]])

\* the other tasks when task i hits its deadline
OthersAfterTimeout(i, j) == tasks[j]

\* the result list in the order the tasks ended
BatchResultsByCompletion ==
    [i \in Vendors |-> IF i <= Len(order) THEN tasks[order[i]].result ELSE NoResult]

\* the ordered result list of the batch
BatchResults == [i \in Vendors |-> tasks[i].result]

(***************************************************************************)
(* Initial states.                                                         *)
(***************************************************************************)
BatchRequests ==
    { [i \in 1..n |-> Req(VendorName(i), cfg)] :
        n \in 2..MaxVendors, cfg \in BatchConfigs }
    \cup { << Req(VendorName(1), cfg) >> : cfg \in WideConfigs }
    \cup { <<>> }

Init ==
    /\ reqs \in BatchRequests
    /\ env \in Envs
    /\ index \in {{}, {OldChunk}}
    /\ tasks = [i \in 1..Len(reqs) |->
                   [pc |-> "waiting", state |-> InitState, result |-> NoResult]]
    /\ order = <<>>
    /\ api = ApiPending
    /\ coll = NoColl
    /\ call = NoCall

(***************************************************************************)
(* Actions.                                                                *)
(***************************************************************************)
\* the orchestrator starts vendor i's pipeline: esg_detect_external_risk
\* builds the empty state
Start(i) ==
    /\ api.status = "pending"
    /\ tasks[i].pc = "waiting"
    /\ CanStart
    /\ tasks' = [tasks EXCEPT ![i] = [pc |-> "load_docs", state |-> InitState,
                                      result |-> NoResult]]
    /\ UNCHANGED <<reqs, env, index, order, api, coll, call>>

NodeLoadDocs(i) ==
    /\ api.status = "pending"
    /\ tasks[i].pc = "load_docs"
    /\ \E reply \in ProviderReplies(reqs[i].company.name, Len(reqs) = 1) :
          tasks' = [tasks EXCEPT ![i].state = esg_node_load_docs(reqs[i], @, reply),
                                 ![i].pc = "rag"]
    /\ UNCHANGED <<reqs, env, index, order, api, coll, call>>

\* esg_node_rag up to and including the upsert, which can raise
NodeRag(i) ==
    /\ api.status = "pending"
    /\ tasks[i].pc = "rag"
    /\ IF RagUsesIndex(reqs[i], tasks[i].state, env.rag_ready)
       THEN \/ /\ index' = esg_upsert(index, esg_docs_to_text_items(tasks[i].state.docs),
                                      OrInt(reqs[i].rag.chunk_size, 800))
               /\ tasks' = [tasks EXCEPT ![i].pc = "rag_retrieve"]
            \/ /\ tasks' = [tasks EXCEPT ![i].pc = "raised"]
               /\ UNCHANGED index
       ELSE /\ tasks' = [tasks EXCEPT ![i].state = esg_node_rag_local(reqs[i], @),
                                      ![i].pc = "analyze"]
            /\ UNCHANGED index
    /\ UNCHANGED <<reqs, env, order, api, coll, call>>

\* the rest of esg_node_rag: the query, which can raise
NodeRagRetrieve(i) ==
    /\ api.status = "pending"
    /\ tasks[i].pc = "rag_retrieve"
    /\ \/ \E hits \in esg_retrieve(index, RagQuery(reqs[i]), OrInt(reqs[i].rag.top_k, 6)) :
             tasks' = [tasks EXCEPT ![i].state = [@ EXCEPT !.rag_used = TRUE,
                                                           !.rag_hits = hits],
                                    ![i].pc = "analyze"]
       \/ tasks' = [tasks EXCEPT ![i].pc = "raised"]
    /\ UNCHANGED <<reqs, env, index, order, api, coll, call>>

\* the outcomes explored for the n generative-text calls of one analysis; in
\* a batch of several vendors only the failing call (deterministic path)
LlmCalls(n) ==
    IF ~env.llm THEN [1..n -> {LlmOff}]
    ELSE IF Len(reqs) > 1 THEN [1..n -> {LlmRaise}]
    ELSE [1..n -> {LlmRaise} \cup LlmReplies]

\* esg_node_analyze, esg_node_score, esg_build_response: the pipeline returns,
\* the task ends and frees its slot
NodeAnalyzeScoreRespond(i) ==
    /\ api.status = "pending"
    /\ tasks[i].pc = "analyze"
    /\ \E llms \in LlmCalls(Len(AnalyzedItems(tasks[i].state))) :
          LET final == esg_node_score(esg_node_analyze(reqs[i], tasks[i].state, llms))
          IN  tasks' = [tasks EXCEPT ![i] =
                           [pc |-> "done", state |-> final,
                            result |-> CompletedResult(reqs[i],
                                           esg_build_response(reqs[i], final))]]
    /\ order' = Append(order, i)
    /\ UNCHANGED <<reqs, env, index, api, coll, call>>

\* the per-vendor deadline passes while vendor i's pipeline runs
Timeout(i) ==
    /\ api.status = "pending"
    /\ tasks[i].pc \in RunningPcs \ {"raised"}
    /\ tasks' = [j \in Vendors |->
                    IF j = i
                    THEN [pc |-> "timeout", state |-> InitState,
                          result |-> TimeoutResult(reqs[i], tasks[i].state)]
                    ELSE OthersAfterTimeout(i, j)]
    /\ order' = Append(order, i)
    /\ UNCHANGED <<reqs, env, index, api, coll, call>>

\* vendor i's pipeline raised: the orchestrator turns it into a degraded
\* result; an exception it let through would reach the operation's
\* "except Exception" and become a 500
PipelineFailed(i) ==
    /\ api.status = "pending"
    /\ tasks[i].pc = "raised"
    /\ IF FailureResult(reqs[i]).kind = "failed"
       THEN /\ tasks' = [tasks EXCEPT ![i] = [pc |-> "failed", state |-> InitState,
                                              result |-> FailureResult(reqs[i])]]
            /\ order' = Append(order, i)
            /\ UNCHANGED api
       ELSE /\ tasks' = [j \in Vendors |->
                            IF tasks[j].pc \in EndedPcs THEN tasks[j]
                            ELSE [tasks[j] EXCEPT !.pc = "cancelled"]]
            /\ api' = [status |-> "500", results |-> <<>>, error |-> "INTERNAL_ERROR"]
            /\ UNCHANGED order
    /\ UNCHANGED <<reqs, env, index, coll, call>>

(***************************************************************************)
(* The detect operation (api/risk.py: esg_api_external_detect):            *)
(* asyncio.wait_for(esg_detect_external_risk_batch(req), timeout=65.0).    *)
(***************************************************************************)
\* the reply when the batch has returned
DetectReturns(results) == [status |-> "200", results |-> results, error |-> "none"]

\* a reply on the deadline that hands out what has been collected so far
DetectTimesOutPartial(results) ==
    [status |-> "504", results |-> results, error |-> "DETECT_TIMEOUT"]

\* the reply when the 65 s deadline passes first
DetectTimesOut(results) ==
    [status |-> "504", results |-> <<>>, error |-> "DETECT_TIMEOUT"]

\* every task has ended: the batch returns and the operation replies
Return ==
    /\ api.status = "pending"
    /\ \A i \in Vendors : tasks[i].pc \in EndedPcs
    /\ api' = DetectReturns(BatchResults)
    /\ UNCHANGED <<reqs, env, index, tasks, order, coll, call>>

\* the operation's own deadline passes before the batch has returned: the
\* batch and every task still in flight are cancelled
OverallTimeout ==
    /\ api.status = "pending"
    /\ api' = DetectTimesOut(BatchResults)
    /\ tasks' = [j \in Vendors |->
                    IF tasks[j].pc \in EndedPcs THEN tasks[j]
                    ELSE [tasks[j] EXCEPT !.pc = "cancelled"]]
    /\ UNCHANGED <<reqs, env, index, order, coll, call>>

Next ==
    \/ \E i \in Vendors : Start(i)
    \/ \E i \in Vendors : NodeLoadDocs(i)
    \/ \E i \in Vendors : NodeRag(i)
    \/ \E i \in Vendors : NodeRagRetrieve(i)
    \/ \E i \in Vendors : NodeAnalyzeScoreRespond(i)
    \/ \E i \in Vendors : Timeout(i)
    \/ \E i \in Vendors : PipelineFailed(i)
    \/ Return
    \/ OverallTimeout

Spec == Init /\ [][Next]_vars

(***************************************************************************)
(* A direct call of the Document Collector, as the preview operation makes *)
(* it: esg_search_documents(req) for one vendor.                           *)
(***************************************************************************)
CollectorConfigs ==
    [search_enabled : BOOLEAN, sources : SUBSET {"news", "gov", "court"},
     documents : {<<>>}, rag_enabled : {FALSE}, top_k : {6},
     strict_grounding : {TRUE}, return_evidence_text : {TRUE},
     categories : {AllCategories}, time_window_days : {0, 30, 90}]

CollectorInit ==
    /\ reqs = <<>>
    /\ env = [rag_ready |-> FALSE, llm |-> FALSE]
    /\ index = {}
    /\ tasks = <<>>
    /\ order = <<>>
    /\ api = ApiPending
    /\ call = NoCall
    /\ \E i \in 1..MaxVendors, cfg \in CollectorConfigs :
          coll = [pc |-> "ready", req |-> Req(VendorName(i), cfg), docs |-> <<>>,
                  called |-> FALSE, secondary |-> FALSE, reply |-> "none"]

CollectorCall ==
    /\ coll.pc = "ready"
    /\ \E reply \in ProviderReplies(coll.req.company.name, TRUE) :
          LET r == esg_search_documents(coll.req, reply)
          IN  coll' = [coll EXCEPT !.pc = "done", !.docs = r.docs, !.called = r.called,
                                   !.secondary = r.secondary,
                                   !.reply = IF r.called THEN reply.kind ELSE "none"]
    /\ UNCHANGED <<reqs, env, index, tasks, order, api, call>>

CollectorNext == CollectorCall

CollectorSpec == CollectorInit /\ [][CollectorNext]_vars

(***************************************************************************)
(* Properties of the batch around the pipelines.                           *)
(***************************************************************************)
\* the chunks of the collection that come from vendor k's documents
ChunksOf(k) ==
    {c \in index :
        c.metadata.url \in {a.url : a \in ArticlePool(reqs[k].company.name)}}

\* the result of a pipeline that analyses `state` with the call outcomes llms
PipelineResult(req, state, llms) ==
    CompletedResult(req, esg_build_response(req,
                             esg_node_score(esg_node_analyze(req, state, llms))))

\* C1: for every vendor list and every order in which the tasks end, the
\* reply holds exactly one result per input vendor and the i-th result is
\* the i-th vendor's.
C1_ResultsInInputOrder ==
    api.status = "200" =>
        /\ Len(api.results) = Len(reqs)
        /\ \A i \in Vendors :
              /\ api.results[i].vendor = reqs[i].company.name
              /\ api.results[i] = tasks[i].result

\* a reply to a batch whose last vendor ended first
C1_Witness ==
    /\ api.status = "200"
    /\ Len(reqs) = MaxVendors
    /\ order[1] = MaxVendors
    /\ tasks[MaxVendors].pc = "done"

\* C2: a vendor whose pipeline passed the per-vendor deadline gets a
\* placeholder: level LOW, a rationale naming the timeout, no signals, and
\* nothing of what the abandoned pipeline had produced (documents, hits,
\* signals, score).
C2_TimeoutPlaceholder ==
    \A i \in Vendors :
        tasks[i].pc = "timeout" =>
            LET r == tasks[i].result
            IN  /\ r.kind = "timeout"
                /\ r.vendor = reqs[i].company.name
                /\ r.external_risk_level = "LOW"
                /\ r.rationale = "timeout"
                /\ r.signals = <<>>
                /\ r.total_score = 0
                /\ r.docs_count = 0
                /\ r.retrieval_meta.docs_count = 0
                /\ r.retrieval_meta.top_sources = {}
                /\ tasks[i].state = InitState
                /\ api.status = "200" => api.results[i] = r

\* a vendor that timed out after its documents had been collected and
\* written to the index, in a batch that has replied
C2_Witness ==
    /\ api.status = "200"
    /\ \E i \in Vendors : tasks[i].pc = "timeout" /\ ChunksOf(i) # {}

\* C4: at every moment the number of pipelines started and neither finished
\* nor timed out is at most the concurrency limit, whatever the batch size.
C4_BoundedConcurrency == Cardinality(Running) <= ConcurrencyLimit

\* a batch larger than the limit: the pool is full and a vendor waits
C4_Witness ==
    /\ Len(reqs) > ConcurrencyLimit
    /\ Cardinality(Running) = ConcurrencyLimit
    /\ \E i \in Vendors : tasks[i].pc = "waiting"

\* a result as the batch hands it out
WellFormed(r, i) ==
    /\ r.kind \in {"ok", "timeout", "failed"}
    /\ r.vendor = reqs[i].company.name
    /\ r.external_risk_level \in {"LOW", "MEDIUM", "HIGH"}
    /\ r.total_score >= 0
    /\ r.docs_count >= 0
    /\ r.kind # "ok" => r.external_risk_level = "LOW" /\ r.signals = <<>>

\* C5: one vendor's timeout or failure never fails the batch: no exception
\* escapes it (no 500 reply), and the reply holds a well-formed result for
\* every vendor.
C5_NoVendorFailsTheBatch ==
    /\ api.status # "500"
    /\ \A i \in Vendors :
          tasks[i].pc \in {"done", "timeout", "failed"} => WellFormed(tasks[i].result, i)
    /\ api.status = "200" =>
          /\ Len(api.results) = Len(reqs)
          /\ \A i \in Vendors : WellFormed(api.results[i], i)

\* a reply that holds a failed vendor, a timed-out vendor and a completed one
C5_Witness ==
    /\ api.status = "200"
    /\ \E i, j, k \in Vendors :
          /\ api.results[i].kind = "failed"
          /\ api.results[j].kind = "timeout"
          /\ api.results[k].kind = "ok"

\* vendor j's pipeline state with its own documents and nothing else
OwnDocsState(j) ==
    [InitState EXCEPT !.docs = tasks[j].state.docs,
                      !.search_used = tasks[j].state.search_used]

\* the results vendor j's request yields from its own documents alone
ObtainableAlone(j) ==
    LET st == esg_node_rag_local(reqs[j], OwnDocsState(j))
    IN  { PipelineResult(reqs[j], st, llms) :
            llms \in LlmCalls(Len(AnalyzedItems(st))) }

\* the results vendor j can get when vendor k is not in the batch: from its
\* own documents and, where it queries the index, from the chunks that are
\* not vendor k's
ObtainableWithout(j, k) ==
    LET req == reqs[j]
        own == OwnDocsState(j)
        others == esg_upsert(index \ ChunksOf(k), esg_docs_to_text_items(own.docs),
                             OrInt(req.rag.chunk_size, 800))
        hitlists == UNION { Arrangements(others, n) :
                              n \in 1..Max(1, OrInt(req.rag.top_k, 6)) }
        states == IF RagUsesIndex(req, own, env.rag_ready)
                  THEN { [own EXCEPT !.rag_used = TRUE, !.rag_hits = h] : h \in hitlists }
                  ELSE { esg_node_rag_local(req, own) }
    IN  UNION { { PipelineResult(req, st, llms) :
                    llms \in LlmCalls(Len(AnalyzedItems(st))) } : st \in states }

\* C3 as stated: after vendor k's timeout every other vendor's result is the
\* one it would get if vendor k were not in the batch.
C3_OthersUnaffected ==
    \A k, j \in Vendors :
        (k # j /\ tasks[k].pc = "timeout" /\ tasks[j].pc = "done")
            => tasks[j].result \in ObtainableWithout(j, k)

\* the results of the vendors that do not query the shared index
C3_OwnResultWithoutIndex ==
    \A k, j \in Vendors :
        (/\ k # j /\ tasks[k].pc = "timeout" /\ tasks[j].pc = "done"
         /\ ~(reqs[j].rag.enabled /\ env.rag_ready))
            => tasks[j].result \in ObtainableAlone(j)

\* the step in which a vendor's deadline passes
C3_TimeoutStep ==
    \A k \in Vendors :
        (tasks[k].pc # "timeout" /\ tasks'[k].pc = "timeout")
            => /\ \A j \in Vendors \ {k} : tasks'[j] = tasks[j]
               /\ index' = index
               /\ api' = api

\* C3 (amended): a per-vendor timeout changes only that vendor's task, no
\* other task is cancelled or turned into a placeholder, and every other
\* vendor that does not query the shared index gets the result of its own
\* documents alone.
C3_TimeoutTouchesOnlyItsTask ==
    []C3_OwnResultWithoutIndex /\ [][C3_TimeoutStep]_vars

\* vendor k timed out, vendor j ended after it with signals of its own
C3_Witness ==
    \E k, j \in Vendors :
        /\ k # j /\ tasks[k].pc = "timeout" /\ tasks[j].pc = "done"
        /\ ~(reqs[j].rag.enabled /\ env.rag_ready)
        /\ tasks[j].result.signals # <<>>
        /\ \E a, b \in 1..Len(order) : a < b /\ order[a] = k /\ order[b] = j

\* C6: when the operation's own deadline passes before the batch has
\* returned, the caller gets the timeout error and no vendor result, the
\* completed ones included.
C6_OverallTimeoutNoPartialData ==
    api.status = "504" =>
        /\ api.results = <<>>
        /\ api.error = "DETECT_TIMEOUT"

\* the overall deadline passed with a vendor already completed and with no
\* per-vendor timeout at all
C6_Witness ==
    /\ api.status = "504"
    /\ \E i \in Vendors : tasks[i].pc = "done" /\ tasks[i].result.kind = "ok"
    /\ \A i \in Vendors : tasks[i].pc # "timeout"

\* C7: no failure of an external collaborator leaves the pipeline as an
\* exception.
C7_PipelineNeverRaises ==
    \A i \in Vendors : tasks[i].pc # "raised"

\* the scores of the signals of a result
Scores(signals) == [n \in 1..Len(signals) |-> signals[n].score]

\* C10: in every vendor result total_score is the sum of the scores of the
\* signals listed in it, 0 when there are none.
C10_TotalIsSumOfScores ==
    /\ \A i \in Vendors :
          tasks[i].result # NoResult =>
              tasks[i].result.total_score = SumSeq(Scores(tasks[i].result.signals))
    /\ \A i \in 1..Len(api.results) :
          api.results[i].total_score = SumSeq(Scores(api.results[i].signals))

\* a completed result with several signals of different scores
C10_Witness ==
    \E i \in Vendors :
        /\ tasks[i].pc = "done"
        /\ Len(tasks[i].result.signals) >= 2
        /\ tasks[i].result.signals[1].score # tasks[i].result.signals[2].score
        /\ tasks[i].result.total_score > 0

(***************************************************************************)
(* Properties of the Document Collector.                                   *)
(***************************************************************************)
\* C8 as stated: search disabled, or a source set without "news" (the empty
\* set included): no provider call, an empty list.
C8_NoOpWithoutNews ==
    (/\ coll.pc = "done"
     /\ (~coll.req.search.enabled \/ "news" \notin coll.req.search.sources))
        => coll.docs = <<>> /\ ~coll.called

\* C8 (amended): search disabled, or a non-empty source set without "news":
\* no provider call, an empty list.
C8_NoOpWhenDisabledOrOtherSources ==
    (/\ coll.pc = "done"
     /\ \/ ~coll.req.search.enabled
        \/ (coll.req.search.sources # {} /\ "news" \notin coll.req.search.sources))
        => coll.docs = <<>> /\ ~coll.called

\* a call with search enabled and sources that leave out "news"
C8_Witness ==
    /\ coll.pc = "done"
    /\ coll.req.search.enabled
    /\ coll.req.search.sources = {"gov", "court"}
    /\ ~coll.called

\* C17: when the primary provider fails (timeout, HTTP error, a reply that
\* is not JSON), the Document Collector goes on to the secondary provider.
C17_FallsBackToSecondary ==
    (coll.pc = "done" /\ coll.called /\ coll.reply \in {"timeout", "http_error", "bad_json"})
        => coll.secondary

\* title+snippet+source of a document, as the precision filter reads it
Haystack(d) == Lower(d.title \o <<SP>> \o d.snippet \o <<SP>> \o d.source)

\* C9: every document the Document Collector returns holds one of the
\* vendor's expanded terms in title+snippet+source, whatever the case.
C9_OnlyMatchingDocuments ==
    coll.pc = "done" =>
        \A i \in 1..Len(coll.docs) :
            \E t \in Range(esg_expand_company_terms(coll.req.company.name)) :
                Contains(Haystack(coll.docs[i]), Lower(t))

(***************************************************************************)
(* Direct calls of the components: the argument is drawn at the start, one *)
(* step applies the component to it.                                       *)
(***************************************************************************)
\* nothing else runs during a direct call
Idle ==
    /\ reqs = <<>>
    /\ env = [rag_ready |-> FALSE, llm |-> FALSE]
    /\ index = {}
    /\ tasks = <<>>
    /\ order = <<>>
    /\ api = ApiPending
    /\ coll = NoColl

Ready(op, arg, out) == [pc |-> "ready", op |-> op, arg |-> arg, out |-> out]

\* the call returns out
Returns(out) ==
    /\ call' = [call EXCEPT !.pc = "done", !.out = out]
    /\ UNCHANGED <<reqs, env, index, tasks, order, api, coll>>

(***************************************************************************)
(* Level mapping: esg_level_from_total over totals of 0.00 .. MaxTotal/100 *)
(***************************************************************************)
LevelInit == Idle /\ \E t \in 0..MaxTotal : call = Ready("level", t, "none")

LevelCall ==
    /\ call.pc = "ready" /\ call.op = "level"
    /\ Returns(esg_level_from_total(call.arg))

LevelNext == LevelCall

LevelSpec == LevelInit /\ [][LevelNext]_vars

\* C11: the level is HIGH exactly for totals of at least 10, MEDIUM exactly
\* for totals of at least 5 and less than 10, LOW otherwise; 10.0 and 5.0
\* belong to the higher level.
C11_LevelMapping ==
    (call.pc = "done" /\ call.op = "level") =>
        /\ call.out \in {"LOW", "MEDIUM", "HIGH"}
        /\ call.out = "HIGH" <=> call.arg >= 1000
        /\ call.out = "MEDIUM" <=> (500 <= call.arg /\ call.arg < 1000)
        /\ call.out = "LOW" <=> call.arg < 500

\* the mapping applied to 10.0
C11_Witness ==
    call.pc = "done" /\ call.op = "level" /\ call.arg = 1000 /\ call.out = "HIGH"

(***************************************************************************)
(* Properties of the signals and results of the pipeline.                  *)
(***************************************************************************)
\* the signals of the results the vendors have so far
ProducedSignals ==
    UNION { Range(tasks[i].result.signals) :
              i \in {j \in Vendors : tasks[j].result # NoResult} }

\* C12: every signal has a severity in 0..5 and a score of severity times
\* the recency weight of its published date, the weight being 1.5, 1.0, 0.7
\* or 0.4.
C12_SeverityAndScore ==
    \A s \in ProducedSignals :
        /\ s.severity \in 0..5
        /\ esg_recency_weight(s.published_at) \in {150, 100, 70, 40}
        /\ s.score = s.severity * esg_recency_weight(s.published_at)

\* a signal of a text with more than five keywords of its category
C12_Witness ==
    \E s \in ProducedSignals :
        /\ s.severity = 5
        /\ s.category = "ENV_COMPLAINT"
        /\ s.score = 500

(***************************************************************************)
(* A direct call of the pipeline: esg_detect_external_risk(req) for one    *)
(* vendor, from the empty state to the response.                           *)
(***************************************************************************)
\* a request with more documents than a result is said to show
ManyDocs == [i \in 1..MaxDocs |-> SuppliedDocs[1]]

\* a supplied document in which no keyword of any category occurs
NoKeywordDoc ==
    DocItem(<<"doc", "3">>, <<"notice">>, <<"internal">>, Ymd(5), "file://3",
            <<"Daily", SP, "notice">>, <<>>)

PipelineConfigs ==
    WideConfigs
    \cup [search_enabled : BOOLEAN, sources : {{"news"}}, documents : {ManyDocs},
          rag_enabled : BOOLEAN, top_k : {1, 2}, strict_grounding : {TRUE},
          return_evidence_text : {TRUE}, categories : {AllCategories},
          time_window_days : {90}]
    \cup [search_enabled : {FALSE}, sources : {{"news"}}, documents : {SuppliedDocs},
          rag_enabled : {TRUE}, top_k : {-1, 0, 3}, strict_grounding : {TRUE},
          return_evidence_text : {TRUE}, categories : {AllCategories},
          time_window_days : {90}]
    \cup [search_enabled : {FALSE}, sources : {{"news"}},
          documents : {<<SuppliedDocs[1], NoKeywordDoc>>, <<NoKeywordDoc>>},
          rag_enabled : BOOLEAN, top_k : {2}, strict_grounding : {TRUE},
          return_evidence_text : {TRUE},
          categories : {AllCategories, <<"ENV_COMPLAINT", "LABOR_DISPUTE">>},
          time_window_days : {90}]

NoResponse == [kind |-> "none"]

PipelineInit ==
    /\ reqs = <<>>
    /\ env \in Envs
    /\ index \in {{}, {OldChunk}}
    /\ tasks = <<>>
    /\ order = <<>>
    /\ api = ApiPending
    /\ coll = NoColl
    /\ \E i \in 1..MaxVendors, cfg \in PipelineConfigs :
          call = Ready("detect", Req(VendorName(i), cfg), NoResponse)

\* the outcomes explored for the generative-text calls of one run: the same
\* outcome for every call of the run
PipelineLlmCalls(n) ==
    IF n = 0 THEN LlmCalls(n)
    ELSE { [i \in 1..n |-> o] : o \in IF env.llm THEN {LlmRaise} \cup LlmReplies
                                                 ELSE {LlmOff} }

\* esg_node_analyze, esg_node_score, esg_build_response on the state after
\* esg_node_rag
PipelineOutcome(req, state, llms) ==
    LET final == esg_node_score(esg_node_analyze(req, state, llms))
    IN  [kind |-> "ok", resp |-> esg_build_response(req, final), state |-> final]

\* the pipeline returns its response
PipelineReturns ==
    /\ call.pc = "ready" /\ call.op = "detect"
    /\ \E reply \in ProviderReplies(call.arg.company.name, TRUE) :
          LET req == call.arg
              loaded == esg_node_load_docs(req, InitState, reply)
          IN  IF RagUsesIndex(req, loaded, env.rag_ready)
              THEN /\ index' = esg_upsert(index, esg_docs_to_text_items(loaded.docs),
                                          OrInt(req.rag.chunk_size, 800))
                   /\ \E hits \in esg_retrieve(index', RagQuery(req),
                                               OrInt(req.rag.top_k, 6)) :
                         LET st == [loaded EXCEPT !.rag_used = TRUE, !.rag_hits = hits]
                         IN  \E llms \in PipelineLlmCalls(Len(AnalyzedItems(st))) :
                                call' = [call EXCEPT !.pc = "done",
                                            !.out = PipelineOutcome(req, st, llms)]
              ELSE /\ UNCHANGED index
                   /\ LET st == esg_node_rag_local(req, loaded)
                      IN  \E llms \in PipelineLlmCalls(Len(AnalyzedItems(st))) :
                             call' = [call EXCEPT !.pc = "done",
                                         !.out = PipelineOutcome(req, st, llms)]
    /\ UNCHANGED <<reqs, env, tasks, order, api, coll>>

\* the index raises in esg_upsert or in esg_retrieve: the pipeline raises
PipelineRaises ==
    /\ call.pc = "ready" /\ call.op = "detect"
    /\ \E reply \in ProviderReplies(call.arg.company.name, TRUE) :
          LET req == call.arg
              loaded == esg_node_load_docs(req, InitState, reply)
          IN  /\ RagUsesIndex(req, loaded, env.rag_ready)
              /\ index' \in {index, esg_upsert(index, esg_docs_to_text_items(loaded.docs),
                                               OrInt(req.rag.chunk_size, 800))}
    /\ call' = [call EXCEPT !.pc = "done", !.out = [kind |-> "raised"]]
    /\ UNCHANGED <<reqs, env, tasks, order, api, coll>>

PipelineNext == PipelineReturns \/ PipelineRaises

PipelineSpec == PipelineInit /\ [][PipelineNext]_vars

\* the pipeline has returned a response
Responded == call.pc = "done" /\ call.op = "detect" /\ call.out.kind = "ok"

\* C13: with an empty document set the response has total_score 0, level
\* LOW, no signals and the generic "no external signal" recommendation,
\* whatever the search and retrieval settings.
C13_EmptyDocumentSet ==
    (Responded /\ call.out.state.docs = <<>>) =>
        /\ call.out.resp.total_score = 0
        /\ call.out.resp.external_risk_level = "LOW"
        /\ call.out.resp.signals = <<>>
        /\ "rec_no_external_signal" \in Range(call.out.resp.recommendations)

\* no document although retrieval is enabled, the index is ready and holds
\* chunks of earlier runs
C13_Witness ==
    /\ Responded
    /\ call.out.state.docs = <<>>
    /\ call.arg.rag.enabled /\ env.rag_ready /\ index # {}
    /\ call.arg.search.enabled
    /\ call.out.resp.recommendations = <<"rec_no_external_signal">>

\* C14: a result carries at most 10 signals, however many documents or hits
\* were analysed.
C14_AtMostTenSignals ==
    Responded => Len(call.out.resp.signals) <= 10

\* C15: the retrieval-used flag is false and there are no hits when
\* retrieval is disabled; it is true when retrieval is enabled, the index
\* ready or not.
C15_RetrievalUsedFlag ==
    Responded =>
        /\ ~call.arg.rag.enabled =>
              /\ ~call.out.resp.retrieval_meta.rag_used
              /\ call.out.state.rag_hits = <<>>
        /\ call.arg.rag.enabled => call.out.resp.retrieval_meta.rag_used

\* retrieval enabled, the index not ready: the flag is set and the hits are
\* the first documents' texts
C15_Witness ==
    /\ Responded
    /\ call.arg.rag.enabled /\ ~env.rag_ready
    /\ call.out.resp.retrieval_meta.rag_used
    /\ call.out.state.rag_hits # <<>>
    /\ call.out.state.rag_hits =
          Take(esg_docs_to_text_items(call.out.state.docs), Max(1, call.arg.rag.top_k))

(***************************************************************************)
(* Term Expander: esg_expand_company_terms over names of up to MaxNameLen  *)
(* characters, and over the names of the alias table.                      *)
(***************************************************************************)
NameChars == {SP, "hyeondae", "jecheol", "A"}

ExpanderNames ==
    SeqsUpTo(NameChars, MaxNameLen)
    \cup {PoscoHoldings, HyundaiSteel, SungkwangBend, DongkukSteel, HDHyundaiElectric,
          VendorA}

ExpanderInit == Idle /\ \E n \in ExpanderNames : call = Ready("expand", n, <<>>)

ExpanderCall ==
    /\ call.pc = "ready" /\ call.op = "expand"
    /\ Returns(esg_expand_company_terms(call.arg))

ExpanderNext == ExpanderCall

ExpanderSpec == ExpanderInit /\ [][ExpanderNext]_vars

\* the position of alias a in the table's list for the name
AliasPosition(name, a) ==
    CHOOSE i \in 1..Len(esg_COMPANY_ALIASES(name)) : esg_COMPANY_ALIASES(name)[i] = a

\* C16: for a non-empty name the list starts with the canonical name, goes
\* on with the aliases of the table in table order and holds no entry twice
\* (5 entries for a name with 4 aliases); for an empty or blank name it is
\* empty.
C16_TermExpander ==
    (call.pc = "done" /\ call.op = "expand") =>
        LET name == Strip(call.arg)
            out == call.out
            aliases == Range(esg_COMPANY_ALIASES(name)) \ {name}
        IN  IF name = <<>> THEN out = <<>>
            ELSE /\ out[1] = name
                 /\ \A i, j \in 1..Len(out) : i # j => out[i] # out[j]
                 /\ Range(Tail(out)) = aliases
                 /\ Len(out) = 1 + Cardinality(aliases)
                 /\ \A i, j \in 2..Len(out) :
                       i < j => AliasPosition(name, out[i]) < AliasPosition(name, out[j])

\* a name of the table with four aliases, passed with blanks around it
C16_Witness ==
    /\ call.pc = "done" /\ call.op = "expand"
    /\ call.arg = <<SP>> \o HyundaiSteel \o <<SP>>
    /\ Len(call.out) = 5
    /\ call.out[1] = HyundaiSteel
    /\ call.out[5] = <<"HYUNDAI", SP, "STEEL">>

(***************************************************************************)
(* Risk Classifier: esg_guess_category over texts of up to MaxTextLen      *)
(* characters, a few longer texts, and allowed lists in every order.       *)
(***************************************************************************)
TextChars == {SP, "sago", "samang", "paeop", "cheobun", "Daily"}

ClassifierTexts ==
    SeqsUpTo(TextChars, MaxTextLen)
    \cup { <<"oyeom", SP, "pyesu", SP, "akchwi", SP, "minwon", NL, "nuchul", SP, "meonji">>,
           <<"haengjeong", "cheobun", SP, SP, "nojo">>,
           <<"budo", SP, "sosong", SP, "paeop", SP, "nosa">>,
           <<"Daily", NL, "oyeom", "pyesu", "akchwi", "minwon", "nuchul", "meonji",
             "baechul", SP, "sago">> }

\* the allowed lists: none (all categories), the default, its reverse, and
\* every list of one or two categories
AllowedLists ==
    {<<>>, AllCategories,
     [i \in 1..5 |-> AllCategories[6 - i]]}
    \cup Arrangements(Range(AllCategories), 1)
    \cup Arrangements(Range(AllCategories), 2)

ClassifierInit ==
    Idle /\ \E t \in ClassifierTexts, al \in AllowedLists :
               call = Ready("classify", [text |-> t, allowed |-> al],
                            [category |-> "none", severity |-> 0, tags |-> <<>>])

ClassifierCall ==
    /\ call.pc = "ready" /\ call.op = "classify"
    /\ Returns(esg_guess_category(call.arg.text, call.arg.allowed))

ClassifierNext == ClassifierCall

ClassifierSpec == ClassifierInit /\ [][ClassifierNext]_vars

Classified == call.pc = "done" /\ call.op = "classify"

\* the allowed list in effect
EffectiveAllowed == IF call.arg.allowed = <<>> THEN AllCategories ELSE call.arg.allowed

\* the number of keywords of the category found in the text of the call
Hits(cat) == Len(MatchedKeywords(cat, esg_normalize_text(call.arg.text)))

\* the largest number of hits over the allowed categories
TopHits == CHOOSE h \in 0..8 :
              /\ \E c \in Range(EffectiveAllowed) : Hits(c) = h
              /\ \A c \in Range(EffectiveAllowed) : Hits(c) <= h

TopCategories == {c \in Range(EffectiveAllowed) : Hits(c) = TopHits}

\* the first position of x in seq
PosIn(seq, x) == CHOOSE i \in 1..Len(seq) : seq[i] = x /\ \A j \in 1..(i - 1) : seq[j] # x

C19_SeverityAndTags ==
    Classified =>
        LET out == call.out
            t == esg_normalize_text(call.arg.text)
        IN  /\ out.severity = Min(5, TopHits)
            /\ out.category \in Range(EffectiveAllowed)
            /\ Len(out.tags) <= 5
            /\ Len(out.tags) = out.severity
            /\ \A i \in 1..Len(out.tags) :
                  /\ out.tags[i] \in Range(KEYWORDS(out.category))
                  /\ Contains(t, out.tags[i])
            /\ \A i, j \in 1..Len(out.tags) : i # j => out.tags[i] # out.tags[j]
            /\ TopHits = 0 =>
                  /\ out.category = EffectiveAllowed[1]
                  /\ out.severity = 0
                  /\ out.tags = <<>>

\* a text with seven keywords of one category
C19_Witness ==
    /\ Classified
    /\ TopHits = 7
    /\ call.out.category = "ENV_COMPLAINT"
    /\ call.out.severity = 5
    /\ Len(call.out.tags) = 5

(***************************************************************************)
(* Evidence Extractor: esg_pick_quote_and_offset over short texts, texts   *)
(* with a keyword more than 60 characters in, and texts that open with     *)
(* dotted capital I, whose lowercase form is two characters long.          *)
(***************************************************************************)
Repeat(c, n) == [i \in 1..n |-> c]

ExtractorTexts ==
    SeqsUpTo({SP, "sago", "Daily", DottedI}, MaxTextLen)
    \cup { Repeat("Daily", n) \o <<"sago", SP, "paeop">> : n \in {59, 60, 61, 64} }
    \cup { Repeat(DottedI, n) \o <<"sago">> : n \in (MaxDotted - 2)..MaxDotted }

ExtractorTags ==
    {<<>>, << <<"sago">> >>, << <<"paeop">>, <<"sago">> >>, << <<"nojo">> >>,
     << <<DottedI>> >>}

ExtractorMaxLens == {0, 1, 3, 200}

ExtractorInit ==
    Idle /\ \E t \in ExtractorTexts, tg \in ExtractorTags, ml \in ExtractorMaxLens :
               call = Ready("pick_quote", [text |-> t, tags |-> tg, max_len |-> ml],
                            [quote |-> <<>>, start |-> 0, end |-> 0])

ExtractorCall ==
    /\ call.pc = "ready" /\ call.op = "pick_quote"
    /\ Returns(esg_pick_quote_and_offset(call.arg.text, call.arg.tags, call.arg.max_len))

ExtractorNext == ExtractorCall

ExtractorSpec == ExtractorInit /\ [][ExtractorNext]_vars

\* C20: the extractor returns (quote, start, end) with
\* 0 <= start <= end <= len(text), end - start <= max_len, and quote the
\* characters of the text from start to end.
C20_OffsetsWithinText ==
    (call.pc = "done" /\ call.op = "pick_quote") =>
        LET out == call.out
            text == call.arg.text
        IN  /\ 0 <= out.start
            /\ out.start <= out.end
            /\ out.end <= Len(text)
            /\ out.end - out.start <= call.arg.max_len
            /\ out.quote = SubSeq(text, out.start + 1, out.end)

(***************************************************************************)
(* Summarizer: esg_summarize_and_why over texts around the 40 character    *)
(* limit of weak evidence and the 180 character snippet, with and without  *)
(* surrounding whitespace, for every outcome of the generative-text call.  *)
(***************************************************************************)
SummarizerTexts ==
    { pad \o Repeat(c, n) \o pad :
        pad \in {<<>>, <<SP, NL>>}, c \in {"Daily", "chujeong"},
        n \in {0, 1, 39, 40, 41, 181} }
    \cup { <<"chujeong", ":", SP, "sago">>, <<"sago", NL, "chujeong">> }

SummarizerInit ==
    Idle /\ \E t \in SummarizerTexts, cat \in Range(AllCategories), sev \in {0, 5},
               strict \in BOOLEAN, llm \in {LlmOff, LlmRaise} \cup LlmReplies :
               call = Ready("summarize",
                            [text |-> t, category |-> cat, severity |-> sev,
                             strict_grounding |-> strict, llm |-> llm],
                            [summary_ko |-> <<>>, why |-> <<>>, is_estimated |-> FALSE])

SummarizerCall ==
    /\ call.pc = "ready" /\ call.op = "summarize"
    /\ Returns(esg_summarize_and_why(call.arg.text, call.arg.category, call.arg.severity,
                                     call.arg.strict_grounding, call.arg.llm))

SummarizerNext == SummarizerCall

SummarizerSpec == SummarizerInit /\ [][SummarizerNext]_vars

Summarized == call.pc = "done" /\ call.op = "summarize"

\* the deterministic path: no usable reply of the generative-text call
Deterministic == call.arg.llm.kind # "reply"

\* C21: on the deterministic path with non-empty text, is_estimated is true
\* exactly when the trimmed text is shorter than 40 characters and strict
\* grounding is on, the summary begins with the "estimated" marker exactly
\* when is_estimated is true, and the marker is never added twice.
C21_EstimatedMarker ==
    (Summarized /\ Deterministic /\ Strip(call.arg.text) # <<>>) =>
        /\ call.out.is_estimated
              <=> (Len(Strip(call.arg.text)) < 40 /\ call.arg.strict_grounding)
        /\ StartsWith(call.out.summary_ko, EstMarker) <=> call.out.is_estimated
        /\ ~StartsWith(call.out.summary_ko, EstPrefix \o EstMarker)

\* a 39 character text under strict grounding: estimated and marked once
C21_Witness ==
    /\ Summarized /\ Deterministic
    /\ Len(Strip(call.arg.text)) = 39
    /\ call.arg.strict_grounding
    /\ call.out.is_estimated
    /\ StartsWith(call.out.summary_ko, EstPrefix \o <<call.arg.category>>)

(***************************************************************************)
(* Recency Weighter: esg_recency_weight over every written form of a       *)
(* published date and every age from a day ahead to MaxAge days.           *)
(***************************************************************************)
PublishedDates == [kind : DateKinds, age : -1..MaxAge]

WeightInit ==
    Idle /\ \E p \in PublishedDates : call = Ready("recency_weight", p, 0)

WeightCall ==
    /\ call.pc = "ready" /\ call.op = "recency_weight"
    /\ Returns(esg_recency_weight(call.arg))

WeightNext == WeightCall

WeightSpec == WeightInit /\ [][WeightNext]_vars

Weighted == call.pc = "done" /\ call.op = "recency_weight"

\* the weight of a date of the given age, in hundredths
WeightOfAge(d) ==
    IF d <= 30 THEN 150 ELSE IF d <= 90 THEN 100 ELSE IF d <= 180 THEN 70 ELSE 40

\* C22: the weight is 0.7 for an empty or unparseable published date; for
\* a parsed date of age d days it is 1.5 when d <= 30, 1.0 when
\* 30 < d <= 90, 0.7 when 90 < d <= 180 and 0.4 when d > 180.
C22_RecencyWeight ==
    Weighted =>
        /\ call.arg.kind \in {"empty", "garbage"} => call.out = 70
        /\ ~esg_parse_date_ymd(call.arg).ok => call.out = 70
        /\ call.arg.kind = "ymd" => esg_parse_date_ymd(call.arg).ok
        /\ esg_parse_date_ymd(call.arg).ok => call.out = WeightOfAge(call.arg.age)

\* a plain date exactly 30 days old weighs 1.5
C22_Witness ==
    /\ Weighted
    /\ call.arg.kind = "ymd"
    /\ call.arg.age = 30
    /\ call.out = 150

\* C23: a published date in any of the three accepted formats (plain date,
\* ISO-8601 date-time with a numeric offset or the letter Z, compact
\* timestamp with trailing Z) is parsed, so its weight is decided by its age.
C23_AcceptedFormatsParsed ==
    (Weighted /\ call.arg.kind \in {"ymd", "iso_offset", "iso_z", "compact_z"}) =>
        /\ esg_parse_date_ymd(call.arg).ok
        /\ call.out = WeightOfAge(call.arg.age)

(***************************************************************************)
(* Retrieval without a ready index (PipelineSpec).                         *)
(***************************************************************************)
\* retrieval enabled, the index not ready
FellBack == Responded /\ call.arg.rag.enabled /\ ~env.rag_ready

\* the first k elements of s, none for k <= 0
FirstK(s, k) == SubSeq(s, 1, Min(Len(s), Max(0, k)))

\* C24 as stated: the hits are the first K text items of the collected
\* documents for K the configured top-K, and the index is left alone.
C24_FallbackFirstTopK ==
    FellBack =>
        /\ call.out.state.rag_hits =
              FirstK(esg_docs_to_text_items(call.out.state.docs), call.arg.rag.top_k)
        /\ index \subseteq {OldChunk}

\* the number of items the fallback keeps for a configured top-K
FallbackK(top_k) == IF top_k = 0 THEN 6 ELSE IF top_k < 0 THEN 1 ELSE top_k

\* C24 (amended): the hits are the first K text items of the collected
\* documents, in document order and unchanged, where K is the configured
\* top-K when that is at least 1, 6 when it is 0 and 1 when it is negative;
\* the index is left alone.
C24_FallbackFirstK ==
    FellBack =>
        LET text_items == esg_docs_to_text_items(call.out.state.docs)
            hits == call.out.state.rag_hits
        IN  /\ Len(hits) = Min(Len(text_items), FallbackK(call.arg.rag.top_k))
            /\ \A i \in 1..Len(hits) :
                  /\ hits[i].text = DocText(SelectSeq(call.out.state.docs,
                                       LAMBDA d : DocText(d) # <<>>)[i])
                  /\ hits[i] = text_items[i]
            /\ index \subseteq {OldChunk}
            /\ OldChunk \notin Range(hits)

\* two documents with text and top-K 1: the first document's text is the hit
C24_Witness ==
    /\ FellBack
    /\ call.arg.rag.top_k = 1
    /\ Len(esg_docs_to_text_items(call.out.state.docs)) = 2
    /\ call.out.state.rag_hits = <<esg_docs_to_text_items(call.out.state.docs)[1]>>
    /\ index = {OldChunk}

(***************************************************************************)
(* The semantic index across vendors (Spec).                               *)
(***************************************************************************)
\* vendor i's run has written its chunks to the index
HasUpserted(i) ==
    \/ tasks[i].pc = "rag_retrieve"
    \/ /\ tasks[i].pc \in {"analyze", "done"}
       /\ RagUsesIndex(reqs[i], tasks[i].state, env.rag_ready)

\* vendor i's run has its hits from the index
HasRetrieved(i) ==
    /\ tasks[i].pc \in {"analyze", "done"}
    /\ RagUsesIndex(reqs[i], tasks[i].state, env.rag_ready)

\* the addresses of the documents vendor i's search can return
UrlsOf(i) == {a.url : a \in ArticlePool(reqs[i].company.name)}

\* C25: the index is one collection for all vendor tasks: what a task
\* upserts stays in it beside the chunks of every other task and of earlier
\* runs, and a task's hits are drawn from all of it, so they can be another
\* vendor's chunks.
C25_OneSharedCollection ==
    \A i \in Vendors :
        /\ HasUpserted(i) =>
              esg_chunk_documents(esg_docs_to_text_items(tasks[i].state.docs),
                                  OrInt(reqs[i].rag.chunk_size, 800)) \subseteq index
        /\ HasRetrieved(i) => Range(tasks[i].state.rag_hits) \subseteq index

\* vendor j's result carries a signal whose evidence is a document of
\* vendor i, found by vendor i's search in the same batch
C25_Witness ==
    \E i, j \in Vendors :
        /\ i # j
        /\ tasks[j].pc = "done"
        /\ \E n \in 1..Len(tasks[j].result.signals) :
              LET sig == tasks[j].result.signals[n]
              IN  /\ sig.evidence # <<>>
                  /\ sig.evidence[1].url \in UrlsOf(i) \ (UrlsOf(j) \cup {""})

(***************************************************************************)
(* Secondary provider: esg_search_rss for a request, a number of fixed     *)
(* feeds, and what each of the at most three requests gets.                *)
(***************************************************************************)
FeedEntry(link, title, pub) == [link |-> link, title |-> title, pubDate |-> pub]

EntryPool ==
    { FeedEntry("https://www.news.kr/hs1", <<"Hyundai", SP, "Steel", SP, "sago">>,
                [kind |-> "rfc2822", age |-> 3]),
      FeedEntry("https://daily.kr/labor", <<SP>>, [kind |-> "garbage", age |-> 0]),
      FeedEntry("", <<"paeop">>, [kind |-> "iso", age |-> 40]) }

FeedReplies ==
    { [kind |-> "fail", entries |-> <<>>] }
    \cup { [kind |-> "ok", entries |-> e] : e \in SeqsUpTo(EntryPool, MaxEntries) }

RssRequests ==
    { [Req(name, cfg) EXCEPT !.search.max_results = m] :
        name \in {HyundaiSteel, VendorA, <<SP>>},
        cfg \in {c \in CollectorConfigs :
                    /\ c.search_enabled /\ c.sources = {"news"}
                    /\ c.time_window_days = 90},
        m \in {0, 1, 2, 20} }

RssInit ==
    Idle /\ \E req \in RssRequests, n \in 0..MaxFixedFeeds,
               replies \in [1..3 -> FeedReplies] :
               call = Ready("search_rss", [req |-> req, n_fixed |-> n, replies |-> replies],
                            [items |-> <<>>, fetched |-> <<>>])

RssCall ==
    /\ call.pc = "ready" /\ call.op = "search_rss"
    /\ Returns(esg_search_rss(call.arg.req, call.arg.n_fixed, call.arg.replies))

RssNext == RssCall

RssSpec == RssInit /\ [][RssNext]_vars

RssDone == call.pc = "done" /\ call.op = "search_rss"

\* the links of the entries the first k requests got
LinksUpTo(k) ==
    UNION { {call.arg.replies[f].entries[e].link :
                e \in 1..Len(call.arg.replies[f].entries)} : f \in 1..k } \ {""}

MaxResultsInEffect(m) == IF m = 0 THEN 20 ELSE m

SearchInit == CollectorInit \/ RssInit

SearchNext == CollectorCall \/ RssCall

SearchSpec == SearchInit /\ [][SearchNext]_vars

\* no two documents of the list have the same url, nor the same id
DistinctUrls(docs) ==
    \A a, b \in 1..Len(docs) :
        a # b => docs[a].url # docs[b].url /\ docs[a].doc_id # docs[b].doc_id

\* C26: no two documents in the Document Collector's result have the same
\* URL (nor the same id), whether the duplicates came from one provider or
\* from different feeds; the id is a function of the URL.
C26_NoDuplicateUrls ==
    /\ coll.pc = "done" =>
          /\ DistinctUrls(coll.docs)
          /\ \A a \in 1..Len(coll.docs) : coll.docs[a].doc_id = esg_hash_id(coll.docs[a].url)
    /\ RssDone =>
          /\ DistinctUrls(call.out.items)
          /\ \A a \in 1..Len(call.out.items) :
                call.out.items[a].doc_id = esg_hash_id(call.out.items[a].url)

\* two feeds carry the same link, both are fetched: one document
C26_Witness ==
    /\ RssDone
    /\ Len(call.out.fetched) >= 2
    /\ \A f \in 1..2 :
          /\ call.arg.replies[f].kind = "ok"
          /\ call.arg.replies[f].entries # <<>>
          /\ call.arg.replies[f].entries[1].link = "https://www.news.kr/hs1"
    /\ Cardinality({a \in 1..Len(call.out.items) :
                       call.out.items[a].url = "https://www.news.kr/hs1"}) = 1

(***************************************************************************)
(* Signals and the items they are built from (PipelineSpec).               *)
(***************************************************************************)
\* the texts and titles the analysis goes through: the hits with text when
\* there are hits, otherwise the documents with text or snippet
TextsToAnalyse(state) ==
    IF state.rag_hits # <<>>
    THEN LET hits == SelectSeq(state.rag_hits, LAMBDA h : Strip(h.text) # <<>>)
         IN  [i \in 1..Len(hits) |->
                 [text |-> Strip(hits[i].text), title |-> hits[i].metadata.title]]
    ELSE LET docs == SelectSeq(state.docs,
                        LAMBDA d : Strip(d.text) # <<>> \/ Strip(d.snippet) # <<>>)
         IN  [i \in 1..Len(docs) |->
                 [text |-> IF Strip(docs[i].text) # <<>> THEN Strip(docs[i].text)
                           ELSE Strip(docs[i].snippet),
                  title |-> docs[i].title]]

\* no keyword of an allowed category occurs in the text
NoKeywordIn(text, allowed) ==
    \A c \in Range(IF allowed = <<>> THEN AllCategories ELSE allowed) :
        \A k \in Range(KEYWORDS(c)) : ~Contains(esg_normalize_text(text), k)

\* C28: every analysed text item yields exactly one signal, also when no
\* keyword of any allowed category occurs in it; such a signal has severity
\* 0, score 0, no tags and the first allowed category, and it changes
\* neither the total score nor the level.
C28_OneSignalPerItem ==
    Responded =>
        LET items == TextsToAnalyse(call.out.state)
            sigs == call.out.resp.signals
            allowed == call.arg.categories
            hit == SelectSeq(sigs, LAMBDA sig : sig.severity > 0)
            total == SumSeq([i \in 1..Len(hit) |-> hit[i].score])
        IN  /\ Len(sigs) = Len(items)
            /\ \A i \in 1..Len(items) :
                  /\ sigs[i].title = items[i].title
                  /\ NoKeywordIn(items[i].text, allowed) =>
                        /\ sigs[i].severity = 0
                        /\ sigs[i].score = 0
                        /\ sigs[i].tags = <<>>
                        /\ sigs[i].category =
                              (IF allowed = <<>> THEN AllCategories ELSE allowed)[1]
            /\ call.out.resp.total_score = total
            /\ call.out.resp.external_risk_level = esg_level_from_total(total)

\* a document without any keyword beside one with keywords: two signals,
\* the total is the score of the one with keywords
C28_Witness ==
    /\ Responded
    /\ Len(call.out.resp.signals) = 2
    /\ \E i, j \in 1..2 :
          /\ call.out.resp.signals[i].severity = 0
          /\ call.out.resp.signals[i].category = "SAFETY_ACCIDENT"
          /\ call.out.resp.signals[j].severity > 0
          /\ call.out.resp.total_score = call.out.resp.signals[j].score
    /\ call.out.resp.total_score > 0

Origin(meta) == [title |-> meta.title, published_at |-> meta.published_at]

\* C30: the signals come from one source only: from the retrieval hits when
\* the hit list is non-empty, otherwise from the collected documents; hits
\* and documents are never both analysed in one run, so with non-empty hits
\* there are at most as many signals as hits.
C30_SignalsFromOneSource ==
    Responded =>
        LET st == call.out.state
            sigs == call.out.resp.signals
            hits == SelectSeq(st.rag_hits, LAMBDA h : Strip(h.text) # <<>>)
            docs == SelectSeq(st.docs,
                       LAMBDA d : Strip(d.text) # <<>> \/ Strip(d.snippet) # <<>>)
        IN  /\ ~call.arg.rag.enabled => st.rag_hits = <<>>
            /\ st.rag_hits # <<>> =>
                  /\ Len(sigs) <= Len(st.rag_hits)
                  /\ Len(sigs) = Len(hits)
                  /\ \A i \in 1..Len(hits) :
                        Origin(sigs[i]) = Origin(hits[i].metadata)
            /\ st.rag_hits = <<>> =>
                  /\ Len(sigs) = Len(docs)
                  /\ \A i \in 1..Len(docs) : Origin(sigs[i]) = Origin(docs[i])

\* two documents with text and one hit: one signal, built from the hit
C30_Witness ==
    /\ Responded
    /\ call.out.state.docs = SuppliedDocs
    /\ Len(call.out.state.rag_hits) = 1
    /\ Len(call.out.resp.signals) = 1
    /\ call.out.resp.signals[1].title = call.out.state.rag_hits[1].metadata.title

====
